---- MODULE Spec2Model ----
(***************************************************************************)
(* Model of the symbol-opener extension: the URI handler with its          *)
(* cross-window pending-URI handoff (src/src/handler.ts) and the symbol    *)
(* resolver with its retry loop (src/src/symbol-resolver.ts, second        *)
(* revision in the file).  Every asynchronous function is cut at its       *)
(* awaits: one action is the code that runs between two awaits.            *)
(*                                                                         *)
(* Strings the code inspects character by character (symbol names, paths)  *)
(* are sequences of one-character strings.                                 *)
(*                                                                         *)
(* The host's side:                                                        *)
(*  - globalState is one value shared by all windows.  A call of update    *)
(*    takes effect in the calling window at once and in the shared value   *)
(*    when the awaited promise resolves (HandleUriSaved,                   *)
(*    ProcessPendingCleared); other windows read the shared value.         *)
(*  - globalState is always supplied, as activate() does.                  *)
(*  - workspaceFolders of a window does not change during a run, and       *)
(*    vscode.openFolder is recorded as a call only.                        *)
(*  - getConfig() may return different settings at each call.              *)
(*  - every call a task makes to the host is appended to the task's log;   *)
(*    pendingBy and serial number the saves so that two records with the   *)
(*    same content can be told apart.                                      *)
(***************************************************************************)
EXTENDS Integers, Sequences, FiniteSets, TLC

\* ------------------------------------------------------------------ bounds
MaxTasks == 2
MaxInst == 3
MaxRetry == 2
MaxResults == 3

Tasks == 1..MaxTasks
Inst == 1..MaxInst

\* undefined / null of the source, for a string, a kind code and a symbol
None == "undefined"
NoKind == -1
NoSymbol == [name |-> <<>>, kind |-> NoKind, path |-> <<>>]

\* ------------------------------------------------------------ kind vocabulary
\* vscode.SymbolKind as buildKindNameToEnum reads it
buildKindNameToEnum ==
  [File |-> 0, Module |-> 1, Namespace |-> 2, Package |-> 3, Class |-> 4,
   Method |-> 5, Property |-> 6, Field |-> 7, Constructor |-> 8, Enum |-> 9,
   Interface |-> 10, Function |-> 11, Variable |-> 12, Constant |-> 13,
   String |-> 14, Number |-> 15, Boolean |-> 16, Array |-> 17, Object |-> 18,
   Key |-> 19, Null |-> 20, EnumMember |-> 21, Struct |-> 22, Event |-> 23,
   Operator |-> 24, TypeParameter |-> 25]

\* parseSymbolKind(kind): the enum value, or undefined for an unknown name
parseSymbolKind(kind) ==
  IF kind \in DOMAIN buildKindNameToEnum THEN buildKindNameToEnum[kind] ELSE NoKind

defaultSymbolSortPriority ==
  <<"Class", "Interface", "Struct", "Function", "Method", "Constructor",
    "Constant", "Property", "Field", "Enum", "Variable">>

\* ------------------------------------------------------------ sequence helpers
RECURSIVE SelectSeqBy(_, _)
\* s.filter(Test) for a set Keep of accepted elements
SelectSeqBy(s, Keep) ==
  IF s = <<>> THEN <<>>
  ELSE IF Head(s) \in Keep THEN <<Head(s)>> \o SelectSeqBy(Tail(s), Keep)
       ELSE SelectSeqBy(Tail(s), Keep)

Range(s) == {s[i] : i \in DOMAIN s}

\* number of entries of log l whose call name is op
Count(l, op) == Cardinality({i \in DOMAIN l : l[i][1] = op})

\* --------------------------------------------------------- name normalisation
\* name.replace(/\(\)$/, '')
StripCallSuffix(name) ==
  IF Len(name) >= 2 /\ name[Len(name) - 1] = "(" /\ name[Len(name)] = ")"
  THEN SubSeq(name, 1, Len(name) - 2)
  ELSE name

\* name.lastIndexOf('.') as a 1-based position, 0 when absent
LastDot(name) ==
  IF \E i \in DOMAIN name : name[i] = "."
  THEN CHOOSE i \in DOMAIN name : name[i] = "." /\ \A j \in (i+1)..Len(name) : name[j] # "."
  ELSE 0

\* the normalisation without the removal of the call suffix
NormalizeName_NoStrip(raw) ==
  IF LastDot(raw) # 0 THEN SubSeq(raw, LastDot(raw) + 1, Len(raw)) ELSE raw

\* the normalisation removing up to two call suffixes
NormalizeName_StripTwice(raw) ==
  LET name == StripCallSuffix(StripCallSuffix(raw))
      dot == LastDot(name)
  IN IF dot # 0 THEN SubSeq(name, dot + 1, Len(name)) ELSE name

\* the normalised name tryResolveSymbol compares with symbolName
NormalizeName(raw) ==
  LET name == StripCallSuffix(raw)
      dot == LastDot(name)
  IN IF dot # 0 THEN SubSeq(name, dot + 1, Len(name)) ELSE name

\* ---------------------------------------------------------- sortByKindPriority
\* rank of a kind that is not in the priority list
Infinity == 1000

RECURSIVE PriorityMap(_, _)
\* priorityMap after the first n names: set(kind, priorityMap.size)
PriorityMap(priority, n) ==
  IF n = 0 THEN [k \in {} |-> 0]
  ELSE LET m == PriorityMap(priority, n - 1)
           kind == parseSymbolKind(priority[n])
       IN [k \in DOMAIN m \cup {kind} |->
             IF k = kind THEN Cardinality(DOMAIN m) ELSE m[k]]

\* the loop over priority throws on a name outside the vocabulary
InvalidPriority(priority) ==
  \E i \in DOMAIN priority : parseSymbolKind(priority[i]) = NoKind

\* the message of that Error: it quotes the first such name
InvalidSymbolKind(priority) ==
  priority[CHOOSE i \in DOMAIN priority :
             /\ parseSymbolKind(priority[i]) = NoKind
             /\ \A j \in 1..(i - 1) : parseSymbolKind(priority[j]) # NoKind]

\* a rank that puts the kinds missing from the list first
KindRank_UnlistedFirst(priority, kind) ==
  LET m == PriorityMap(priority, Len(priority))
  IN IF kind \in DOMAIN m THEN m[kind] ELSE -1

\* priorityMap.get(kind) ?? Infinity
KindRank(priority, kind) ==
  LET m == PriorityMap(priority, Len(priority))
  IN IF kind \in DOMAIN m THEN m[kind] ELSE Infinity

RECURSIVE InsertByRank(_, _, _)
\* insert x after every element whose rank is not greater (stable)
InsertByRank(priority, sorted, x) ==
  IF sorted = <<>> THEN <<x>>
  ELSE IF KindRank(priority, Head(sorted).kind) - KindRank(priority, x.kind) > 0
       THEN <<x>> \o sorted
       ELSE <<Head(sorted)>> \o InsertByRank(priority, Tail(sorted), x)

RECURSIVE SortFrom(_, _, _)
SortFrom(priority, symbols, acc) ==
  IF symbols = <<>> THEN acc
  ELSE SortFrom(priority, Tail(symbols), InsertByRank(priority, acc, Head(symbols)))

\* [...symbols].sort((a, b) => aPriority - bPriority), for a valid priority
sortByKindPriority(symbols, priority) == SortFrom(priority, symbols, <<>>)

\* ------------------------------------------------------------ tryResolveSymbol
\* the kind filter is applied only for a truthy hint that parses
KindFilterApplies(kind) == kind # None /\ kind # "" /\ parseSymbolKind(kind) # NoKind

FilterByKind(symbols, kind) ==
  IF KindFilterApplies(kind)
  THEN SelectSeqBy(symbols, {s \in Range(symbols) : s.kind = parseSymbolKind(kind)})
  ELSE symbols

\* exactMatches without the kind filter
ExactMatches_NoKindFilter(symbols, symbolName, kind) ==
  SelectSeqBy(symbols, {s \in Range(symbols) : NormalizeName(s.name) = symbolName})

\* exactMatches of tryResolveSymbol
ExactMatches(symbols, symbolName, kind) ==
  FilterByKind(
    SelectSeqBy(symbols, {s \in Range(symbols) : NormalizeName(s.name) = symbolName}),
    kind)

\* fuzzyMatches of tryResolveSymbol (used when exactMatches is empty)
FuzzyMatches(symbols, kind) == FilterByKind(symbols, kind)

\* ------------------------------------------------------------------ the state
\* project paths and symbol names the host may send
P == <<"/", "p">>
Q == <<"/", "q">>
Foo == <<"a">>

\* a configured symbolOpener.langDetectors list (entries of defaultLangDetectors)
langDetectors ==
  << [lang |-> "typescript", markers |-> <<"tsconfig.json", "package.json">>,
      glob |-> "**/*.{ts,js}"],
     [lang |-> "go", markers |-> <<"go.mod">>, glob |-> "**/*.go"] >>

\* what the index may return for the symbol name Foo
Candidates ==
  { [name |-> <<"a">>, kind |-> 11, path |-> <<"/", "p", "/", "x">>],
    [name |-> <<"a">>, kind |-> 4, path |-> <<"/", "p", "/", "y">>],
    [name |-> <<"b", ".", "a", "(", ")">>, kind |-> 5, path |-> <<"/", "q", "/", "z">>],
    [name |-> <<"a", "b">>, kind |-> 11, path |-> <<"/", "p", "/", "w">>] }

\* result lists of up to n distinct candidates
SeqsUpTo(S, n) ==
  UNION { {s \in [1..k -> S] : \A i, j \in 1..k : i # j => s[i] # s[j]} : k \in 0..n }

VARIABLES
  env,               \* name of what the host offers in this run (fixed by Init)
  workspaceFolders,  \* vscode.workspace.workspaceFolders of every window
  pendingUri,        \* globalState value under PENDING_URI_KEY
  pendingBy,         \* ghost: serial number of the save that wrote pendingUri
  serial,            \* ghost: number of saves that have landed
  task               \* the event tasks (handleUri / processPendingUri runs)

vars == <<env, workspaceFolders, pendingUri, pendingBy, serial, task>>

\* the objects resolveSymbol returns: {symbol}, {cancelled: true}, {}
ResFound(c) == [symbol |-> c, cancelled |-> FALSE]
ResCancelled == [symbol |-> NoSymbol, cancelled |-> TRUE]
ResNone == [symbol |-> NoSymbol, cancelled |-> FALSE]

\* the pending slot when the key is absent
NoPending == [symbol |-> <<>>, cwd |-> <<>>, kind |-> None]

\* a task slot no event is using
IdleTask ==
  [pc |-> "idle", inst |-> 0, ev |-> "none", symbol |-> <<>>, cwd |-> <<>>,
   kind |-> None, notOpen |-> None, notFound |-> None, retryCount |-> 0,
   attempt |-> 0, token |-> FALSE, det |-> 0, mk |-> 0, items |-> <<>>,
   dets |-> <<>>, seen |-> <<>>, multi |-> None, priority |-> <<>>,
   language |-> None, visible |-> None,
   ret |-> ResNone, stamp |-> 0, log |-> <<>>]

Emit(tk, entry) == [tk EXCEPT !.log = Append(@, entry)]

\* workspaceFolders?.some(folder => folder.uri.fsPath === cwd)
isWorkspaceOpen(i, cwd) == \E k \in DOMAIN workspaceFolders[i] : workspaceFolders[i][k] = cwd

\* ------------------------------------------------------------------ openSymbol
\* openSymbol reporting a cancelled attempt with an error message
OpenSymbolResult_CancelShowsError(tk, ret) ==
  LET tr == [tk EXCEPT !.ret = ret, !.items = <<>>]
  IN IF ret.symbol # NoSymbol
     THEN [Emit(tr, <<"openTextDocument", "nav">>) EXCEPT !.pc = "nav_open"]
     ELSE IF ret.cancelled
     THEN [Emit(Emit(tr, <<"log", "cancelled">>), <<"showErrorMessage", "cancelled">>)
             EXCEPT !.pc = "done"]
     ELSE IF tk.notFound = "search"
     THEN [Emit(tr, <<"findInFiles", tk.symbol>>) EXCEPT !.pc = "done"]
     ELSE [Emit(tr, <<"showErrorMessage", "notFound">>) EXCEPT !.pc = "done"]

\* openSymbol that also opens the search under the policy 'error'
OpenSymbolResult_ErrorAlsoSearches(tk, ret) ==
  LET tr == [tk EXCEPT !.ret = ret, !.items = <<>>]
  IN IF ret.symbol # NoSymbol
     THEN [Emit(tr, <<"openTextDocument", "nav">>) EXCEPT !.pc = "nav_open"]
     ELSE IF ret.cancelled
     THEN [Emit(tr, <<"log", "cancelled">>) EXCEPT !.pc = "done"]
     ELSE IF tk.notFound = "search"
     THEN [Emit(tr, <<"findInFiles", tk.symbol>>) EXCEPT !.pc = "done"]
     ELSE [Emit(Emit(tr, <<"findInFiles", tk.symbol>>), <<"showErrorMessage", "notFound">>)
             EXCEPT !.pc = "done"]

\* openSymbol that treats a cancelled result as not found
OpenSymbolResult_CancelIsNotFound(tk, ret) ==
  LET tr == [tk EXCEPT !.ret = ret, !.items = <<>>]
  IN IF ret.symbol # NoSymbol
     THEN [Emit(tr, <<"openTextDocument", "nav">>) EXCEPT !.pc = "nav_open"]
     ELSE IF tk.notFound = "search"
     THEN [Emit(tr, <<"findInFiles", tk.symbol>>) EXCEPT !.pc = "done"]
     ELSE [Emit(tr, <<"showErrorMessage", "notFound">>) EXCEPT !.pc = "done"]

\* the branches of openSymbol that follow resolveSymbol's result
\* ret is the object resolveSymbol returned: {symbol?, cancelled?}
OpenSymbolResult(tk, ret) ==
  LET tr == [tk EXCEPT !.ret = ret, !.items = <<>>]
  IN IF ret.symbol # NoSymbol
     THEN [Emit(tr, <<"openTextDocument", "nav">>) EXCEPT !.pc = "nav_open"]
     ELSE IF ret.cancelled
     THEN [Emit(tr, <<"log", "cancelled">>) EXCEPT !.pc = "done"]
     ELSE IF tk.notFound = "search"
     THEN [Emit(tr, <<"findInFiles", tk.symbol>>) EXCEPT !.pc = "done"]
     ELSE [Emit(tr, <<"showErrorMessage", "notFound">>) EXCEPT !.pc = "done"]

\* a catch block inside the loop that takes the exception for an empty round
OpenSymbolCatch_Retries(tk, message) ==
  [tk EXCEPT !.items = <<>>, !.pc = "wait"]

\* the catch block of openSymbol: resolveSymbol threw an Error with e.message
OpenSymbolCatch(tk, message) ==
  [Emit([tk EXCEPT !.items = <<>>], <<"showErrorMessage", message>>) EXCEPT !.pc = "done"]


\* a retry loop that reads the token once more after its last round
LoopHead_CancelAfterLoop(tk) ==
  IF tk.token
  THEN OpenSymbolResult(tk, ResCancelled)
  ELSE IF tk.attempt < tk.retryCount
  THEN [Emit(tk, <<"query", "#">>) EXCEPT !.pc = "q_hash"]
  ELSE OpenSymbolResult(tk, ResNone)

\* a retry loop with no bound on the attempts
LoopHead_NoBound(tk) ==
  IF tk.token
  THEN OpenSymbolResult(tk, ResCancelled)
  ELSE [Emit(tk, <<"query", "#">>) EXCEPT !.pc = "q_hash"]

\* the loop head with an off-by-one bound
LoopHead_OneMore(tk) ==
  IF tk.attempt <= tk.retryCount
  THEN IF tk.token
       THEN OpenSymbolResult(tk, ResCancelled)
       ELSE [Emit(tk, <<"query", "#">>) EXCEPT !.pc = "q_hash"]
  ELSE OpenSymbolResult(tk, ResNone)

\* the loop head without the check of the cancellation token
LoopHead_NoCancelCheck(tk) ==
  IF tk.attempt < tk.retryCount
  THEN [Emit(tk, <<"query", "#">>) EXCEPT !.pc = "q_hash"]
  ELSE OpenSymbolResult(tk, ResNone)

\* head of the retry loop of resolveSymbol, up to the first index query
LoopHead(tk) ==
  IF tk.attempt < tk.retryCount
  THEN IF tk.token
       THEN OpenSymbolResult(tk, ResCancelled)
       ELSE [Emit(tk, <<"query", "#">>) EXCEPT !.pc = "q_hash"]
  ELSE OpenSymbolResult(tk, ResNone)

\* resolveSymbol up to its withProgress call (activateLsp has returned)
resolveSymbol(tk) ==
  [Emit(tk, <<"withProgress", "call">>) EXCEPT
     !.pc = "progress", !.det = 0, !.mk = 0]

\* the withProgress callback starts: config.retryCount is the value getConfig()
\* gave resolveSymbol (nothing reads it earlier), then the loop head
withProgress(tk, retryCount) ==
  LoopHead([tk EXCEPT !.retryCount = retryCount, !.attempt = 0])

\* selectSymbol that sorts without checking the names of the priority list
selectSymbol_NoValidation(tk, symbols, cfg) ==
  LET sorted == sortByKindPriority(symbols, cfg.symbolSortPriority)
  IN IF Len(sorted) = 1 \/ cfg.multipleSymbolBehavior = "first"
     THEN OpenSymbolResult(tk, ResFound(sorted[1]))
     ELSE [Emit(tk, <<"showQuickPick", "exact">>) EXCEPT !.pc = "pick", !.items = sorted]

\* selectSymbol that takes the candidates in the order of the index's answer
selectSymbol_Unsorted(tk, symbols, cfg) ==
  IF InvalidPriority(cfg.symbolSortPriority)
  THEN OpenSymbolCatch(tk, InvalidSymbolKind(cfg.symbolSortPriority))
  ELSE IF Len(symbols) = 1 \/ cfg.multipleSymbolBehavior = "first"
       THEN OpenSymbolResult(tk, ResFound(symbols[1]))
       ELSE [Emit(tk, <<"showQuickPick", "exact">>) EXCEPT !.pc = "pick", !.items = symbols]

\* selectSymbol on a non-empty list, up to its await or its return
selectSymbol(tk, symbols, cfg) ==
  IF InvalidPriority(cfg.symbolSortPriority)
  THEN OpenSymbolCatch(tk, InvalidSymbolKind(cfg.symbolSortPriority))
  ELSE LET sorted == sortByKindPriority(symbols, cfg.symbolSortPriority)
       IN IF Len(sorted) = 1 \/ cfg.multipleSymbolBehavior = "first"
          THEN OpenSymbolResult(tk, ResFound(sorted[1]))
          ELSE IF cfg.multipleSymbolBehavior = "quickpick"
          THEN [Emit(tk, <<"showQuickPick", "exact">>) EXCEPT !.pc = "pick", !.items = sorted]
          ELSE OpenSymbolResult(tk, ResFound(sorted[1]))

\* tryResolveSymbol whose fuzzy matches follow the policy 'first'
tryResolveSymbol_FuzzyFollowsPolicy(t0, symbols, cfg) ==
  LET tk == [t0 EXCEPT !.seen = symbols,
                       !.multi = cfg.multipleSymbolBehavior,
                       !.priority = cfg.symbolSortPriority]
      exactMatches == ExactMatches(symbols, tk.symbol, tk.kind)
      fuzzyMatches == FuzzyMatches(symbols, tk.kind)
  IN IF exactMatches # <<>>
     THEN selectSymbol(Emit(tk, <<"selectSymbol", "call">>), exactMatches, cfg)
     ELSE IF fuzzyMatches # <<>> /\ cfg.multipleSymbolBehavior = "first"
     THEN OpenSymbolResult(tk, ResFound(fuzzyMatches[1]))
     ELSE IF fuzzyMatches # <<>>
     THEN [Emit(tk, <<"showQuickPick", "fuzzy">>) EXCEPT !.pc = "fuzzypick", !.items = fuzzyMatches]
     ELSE [tk EXCEPT !.pc = "wait"]

\* tryResolveSymbol after findSymbols returned a non-empty list, and the part
\* of resolveSymbol's loop body that follows it; seen keeps the list, multi
\* and priority the settings in force during the round
tryResolveSymbol(t0, symbols, cfg) ==
  LET tk == [t0 EXCEPT !.seen = symbols,
                       !.multi = cfg.multipleSymbolBehavior,
                       !.priority = cfg.symbolSortPriority]
      exactMatches == ExactMatches(symbols, tk.symbol, tk.kind)
      fuzzyMatches == FuzzyMatches(symbols, tk.kind)
  IN IF exactMatches # <<>>
     THEN selectSymbol(Emit(tk, <<"selectSymbol", "call">>), exactMatches, cfg)
     ELSE IF fuzzyMatches # <<>>
     THEN [Emit(tk, <<"showQuickPick", "fuzzy">>) EXCEPT !.pc = "fuzzypick", !.items = fuzzyMatches]
     ELSE [tk EXCEPT !.pc = "wait"]

\* ----------------------------------------------------------------- activateLsp
\* detectors that have a marker at or after (d, m), in probing order
NextProbe(dets, d, m) ==
  IF d \in DOMAIN dets /\ m \in DOMAIN dets[d].markers THEN <<d, m>>
  ELSE IF \E e \in DOMAIN dets : e > d /\ dets[e].markers # <<>>
  THEN <<CHOOSE e \in DOMAIN dets : e > d /\ dets[e].markers # <<>>
                 /\ \A f \in DOMAIN dets : (f > d /\ dets[f].markers # <<>>) => e <= f, 1>>
  ELSE <<0, 0>>

\* continue the marker loops at (d, m): probe it, or leave activateLsp
ProbeFrom(tk, dets, d, m) ==
  LET nxt == NextProbe(dets, d, m)
  IN IF nxt[1] # 0
     THEN [Emit(tk, <<"findFiles", "marker">>) EXCEPT !.pc = "lsp_marker", !.det = nxt[1], !.mk = nxt[2]]
     ELSE resolveSymbol(tk)

\* activateLsp that goes through the marker loops whatever language is set
openSymbol_NoOverride(tk, cfg) ==
  LET t0 == [tk EXCEPT !.notFound = cfg.symbolNotFoundBehavior, !.dets = cfg.langDetectors,
                       !.language = cfg.language, !.visible = cfg.visible]
  IN ProbeFrom(t0, cfg.langDetectors, 1, 1)

\* openSymbol from its first line to the first await of activateLsp
\* cfg is getConfig() of openSymbol; language and visible only record what
\* the attempt ran under: the resolver never reads window.visibleTextEditors
openSymbol(tk, cfg) ==
  LET t0 == [tk EXCEPT !.notFound = cfg.symbolNotFoundBehavior, !.dets = cfg.langDetectors,
                       !.language = cfg.language, !.visible = cfg.visible]
      dets == cfg.langDetectors
      hit == {d \in DOMAIN dets : dets[d].lang = cfg.language}
  IN IF cfg.language # None /\ hit # {}
     THEN [Emit(t0, <<"findFiles", "glob">>) EXCEPT
             !.pc = "lsp_glob", !.det = CHOOSE d \in hit : \A e \in hit : d <= e]
     ELSE ProbeFrom(t0, dets, 1, 1)

\* ------------------------------------------------------------- findSymbols
\* findSymbols with the '#' transform only
findSymbolsHash_OnlyHash(tk, symbols, cfg) ==
  IF symbols # <<>>
  THEN tryResolveSymbol(Emit(tk, <<"result", "nonempty">>), symbols, cfg)
  ELSE [Emit(tk, <<"result", "empty">>) EXCEPT !.pc = "wait"]

\* the '#'-prefixed query returned symbols
findSymbolsHash(tk, symbols, cfg) ==
  IF symbols # <<>>
  THEN tryResolveSymbol(Emit(tk, <<"result", "nonempty">>), symbols, cfg)
  ELSE [Emit(Emit(tk, <<"result", "empty">>), <<"query", "plain">>) EXCEPT !.pc = "q_plain"]

\* the plain-name query returned symbols
findSymbolsPlain(tk, symbols, cfg) ==
  IF symbols # <<>>
  THEN tryResolveSymbol(Emit(tk, <<"result", "nonempty">>), symbols, cfg)
  ELSE [Emit(tk, <<"result", "empty">>) EXCEPT !.pc = "wait"]

\* a dismissed picker that counts as "no symbol in this round"
selectSymbolPicked_Retry(tk, choice) ==
  IF choice = 0
  THEN [Emit(tk, <<"picked", "none">>) EXCEPT !.pc = "wait", !.items = <<>>]
  ELSE OpenSymbolResult(Emit(tk, <<"picked", "item">>), ResFound(tk.items[choice]))

\* a dismissed picker that counts as a choice of the first item
selectSymbolPicked_DismissIsFirst(tk, choice) ==
  IF choice = 0
  THEN OpenSymbolResult(Emit(tk, <<"picked", "none">>), ResFound(tk.items[1]))
  ELSE OpenSymbolResult(Emit(tk, <<"picked", "item">>), ResFound(tk.items[choice]))

\* showQuickPick of selectSymbol returned; choice 0 is a dismissed picker
selectSymbolPicked(tk, choice) ==
  IF choice = 0
  THEN OpenSymbolResult(Emit(tk, <<"picked", "none">>), ResCancelled)
  ELSE OpenSymbolResult(Emit(tk, <<"picked", "item">>), ResFound(tk.items[choice]))

\* showQuickPick of selectFuzzyMatch returned
selectFuzzyMatch(tk, choice) ==
  IF choice = 0
  THEN OpenSymbolResult(Emit(tk, <<"picked", "none">>), ResCancelled)
  ELSE OpenSymbolResult(Emit(tk, <<"picked", "item">>), ResFound(tk.items[choice]))

\* a marker findFiles returned
activateLspMarker(tk, found) ==
  IF found
  THEN [Emit(tk, <<"findFiles", "glob">>) EXCEPT !.pc = "lsp_glob"]
  ELSE ProbeFrom(tk, tk.dets, tk.det, tk.mk + 1)

\* activateLsp that shows the file it loads
activateLspGlob_ShowsFile(tk, found) ==
  IF found
  THEN [Emit(Emit(tk, <<"openTextDocument", "lsp">>), <<"showTextDocument", "lsp">>)
          EXCEPT !.pc = "lsp_load"]
  ELSE resolveSymbol(tk)

\* activateLsp that goes on to the next detector when the glob finds no file
activateLspGlob_NextDetector(tk, found) ==
  IF found
  THEN [Emit(tk, <<"openTextDocument", "lsp">>) EXCEPT !.pc = "lsp_load"]
  ELSE ProbeFrom(tk, tk.dets, tk.det + 1, 1)

\* the source-glob findFiles returned
activateLspGlob(tk, found) ==
  IF found
  THEN [Emit(tk, <<"openTextDocument", "lsp">>) EXCEPT !.pc = "lsp_load"]
  ELSE resolveSymbol(tk)

\* ------------------------------------------------------------------- handler
\* handleUri whose 'error' policy does not return
handleUri_ErrorFallsThrough(i, symbol, cwd, kind, notOpen, cfg) ==
  LET tk == [IdleTask EXCEPT !.inst = i, !.ev = "uri", !.symbol = symbol,
                             !.cwd = cwd, !.kind = kind]
  IN IF symbol = <<>> \/ cwd = <<>>
     THEN [Emit(tk, <<"showErrorMessage", "missing">>) EXCEPT !.pc = "done"]
     ELSE IF ~isWorkspaceOpen(i, cwd)
     THEN IF notOpen = "error"
          THEN [Emit(tk, <<"showErrorMessage", "notOpen">>) EXCEPT
                  !.pc = "h_update", !.notOpen = notOpen]
          ELSE [tk EXCEPT !.pc = "h_update", !.notOpen = notOpen]
     ELSE openSymbol(tk, cfg)

\* handleUri that issues the openFolder command without awaiting the save
handleUri_OpenBeforeSave(i, symbol, cwd, kind, notOpen, cfg) ==
  LET tk == [IdleTask EXCEPT !.inst = i, !.ev = "uri", !.symbol = symbol,
                             !.cwd = cwd, !.kind = kind]
  IN IF symbol = <<>> \/ cwd = <<>>
     THEN [Emit(tk, <<"showErrorMessage", "missing">>) EXCEPT !.pc = "done"]
     ELSE IF ~isWorkspaceOpen(i, cwd)
     THEN IF notOpen = "error"
          THEN [Emit(tk, <<"showErrorMessage", "notOpen">>) EXCEPT
                  !.pc = "done", !.notOpen = notOpen]
          ELSE [Emit(tk, <<"openFolder", "forceNewWindow">>) EXCEPT
                  !.pc = "h_update", !.notOpen = notOpen]
     ELSE openSymbol(tk, cfg)

\* handleUri going on after the error about the missing parameters
handleUri_MissingGoesOn(i, symbol, cwd, kind, notOpen, cfg) ==
  LET tk == [IdleTask EXCEPT !.inst = i, !.ev = "uri", !.symbol = symbol,
                             !.cwd = cwd, !.kind = kind]
  IN IF symbol = <<>> \/ cwd = <<>>
     THEN [Emit(tk, <<"showErrorMessage", "missing">>) EXCEPT
             !.pc = "h_update", !.notOpen = "new-window"]
     ELSE IF ~isWorkspaceOpen(i, cwd)
     THEN IF notOpen = "error"
          THEN [Emit(tk, <<"showErrorMessage", "notOpen">>) EXCEPT
                  !.pc = "done", !.notOpen = notOpen]
          ELSE [tk EXCEPT !.pc = "h_update", !.notOpen = notOpen]
     ELSE openSymbol(tk, cfg)

\* handleUri from its first line to its first await
handleUri(i, symbol, cwd, kind, notOpen, cfg) ==
  LET tk == [IdleTask EXCEPT !.inst = i, !.ev = "uri", !.symbol = symbol,
                             !.cwd = cwd, !.kind = kind]
  IN IF symbol = <<>> \/ cwd = <<>>
     THEN [Emit(tk, <<"showErrorMessage", "missing">>) EXCEPT !.pc = "done"]
     ELSE IF ~isWorkspaceOpen(i, cwd)
     THEN IF notOpen = "error"
          THEN [Emit(tk, <<"showErrorMessage", "notOpen">>) EXCEPT
                  !.pc = "done", !.notOpen = notOpen]
          ELSE [tk EXCEPT !.pc = "h_update", !.notOpen = notOpen]
     ELSE openSymbol(tk, cfg)

\* the PendingUri record handleUri builds
PendingOf(tk) == [symbol |-> tk.symbol, cwd |-> tk.cwd, kind |-> tk.kind]

\* openFolder without forceNewWindow
handleUriOpenFolder_Reuse(tk, stamp) ==
  [Emit(Emit([tk EXCEPT !.stamp = stamp], <<"update", "save">>),
        <<"openFolder", "reuseWindow">>)
   EXCEPT !.pc = "done"]

\* handleUri after globalState.update resolved: the openFolder command
\* stamp is the serial number of the save (ghost)
handleUriOpenFolder(tk, stamp) ==
  [Emit(Emit([tk EXCEPT !.stamp = stamp], <<"update", "save">>),
        <<"openFolder", IF tk.notOpen = "new-window" THEN "forceNewWindow" ELSE "reuseWindow">>)
   EXCEPT !.pc = "done"]

\* processPendingUri that hands the request on when its window lacks the project
processPendingUri_HandsOn(i, ev, pending, by) ==
  LET tk == [IdleTask EXCEPT !.inst = i, !.ev = ev]
  IN IF pending = NoPending
     THEN [tk EXCEPT !.pc = "done"]
     ELSE LET tp == [tk EXCEPT !.symbol = pending.symbol, !.cwd = pending.cwd,
                                !.kind = pending.kind, !.stamp = by]
          IN IF ~isWorkspaceOpen(i, pending.cwd)
             THEN [tp EXCEPT !.pc = "h_update", !.stamp = 0, !.notOpen = "new-window"]
             ELSE [tp EXCEPT !.pc = "p_update"]

\* processPendingUri without the check of the window's folders
processPendingUri_NoFolderCheck(i, ev, pending, by) ==
  LET tk == [IdleTask EXCEPT !.inst = i, !.ev = ev]
  IN IF pending = NoPending
     THEN [tk EXCEPT !.pc = "done"]
     ELSE [tk EXCEPT !.symbol = pending.symbol, !.cwd = pending.cwd,
                     !.kind = pending.kind, !.stamp = by, !.pc = "p_update"]

\* processPendingUri from its first line to its first await
\* ev is the event that called it: "startup" or "focus"
processPendingUri(i, ev, pending, by) ==
  LET tk == [IdleTask EXCEPT !.inst = i, !.ev = ev]
  IN IF pending = NoPending
     THEN [tk EXCEPT !.pc = "done"]
     ELSE LET tp == [tk EXCEPT !.symbol = pending.symbol, !.cwd = pending.cwd,
                                !.kind = pending.kind, !.stamp = by]
          IN IF ~isWorkspaceOpen(i, pending.cwd)
             THEN [tp EXCEPT !.pc = "done"]
             ELSE [tp EXCEPT !.pc = "p_update"]

\* processPendingUri that returns after the clear
processPendingUriCleared_NoResolve(tk, cfg) ==
  [Emit(tk, <<"update", "clear">>) EXCEPT !.pc = "done"]

\* processPendingUri that passes only the symbol to openSymbol
processPendingUriCleared_NoKind(tk, cfg) ==
  openSymbol(Emit([tk EXCEPT !.kind = None], <<"update", "clear">>), cfg)

\* processPendingUri after globalState.update(key, undefined) resolved
processPendingUriCleared(tk, cfg) ==
  openSymbol(Emit(tk, <<"update", "clear">>), cfg)

\* ------------------------------------------------------------ the host's side
MaxSaves == 2

FooFunction == [name |-> <<"a">>, kind |-> 11, path |-> <<"/", "p", "/", "x">>]
FooClass == [name |-> <<"a">>, kind |-> 4, path |-> <<"/", "p", "/", "y">>]
FooMethod == [name |-> <<"b", ".", "a", "(", ")">>, kind |-> 5, path |-> <<"/", "q", "/", "z">>]
FooBar == [name |-> <<"a", "b">>, kind |-> 11, path |-> <<"/", "p", "/", "w">>]

\* one answer of the index of each sort: nothing, one exact match, no exact
\* match, a qualified name, several exact matches
RoundResults ==
  {<<>>, <<FooFunction>>, <<FooBar>>, <<FooMethod>>, <<FooFunction, FooClass>>}

\* the windows' workspace folders: window 1 has one of `first`, every other
\* window the same one of `others`
Layouts(first, others) ==
  {[i \in Inst |-> IF i = 1 THEN a ELSE b] : a \in first, b \in others}

\* What the host offers in one run.  A run exercises one component with the
\* full variety of its inputs and the others with a few.
\* the retry loop of the query engine, in one window with the project open
ResolveEnv ==
  [name |-> "resolve", slots |-> {1}, insts |-> {1}, uriInsts |-> {1}, startInsts |-> {1}, layouts |-> Layouts({<<P>>}, {<<P>>}),
   symbols |-> {Foo}, cwds |-> {P},
   kinds |-> {None, "Class", "Function", "Klass"},
   results |-> RoundResults,
   retry |-> 0..MaxRetry,
   notOpen |-> {"new-window"}, notFound |-> {"search", "error"},
   multi |-> {"first", "quickpick"},
   priorities |-> {defaultSymbolSortPriority, <<"Class", "Klass">>},
   languages |-> {None}, detectors |-> {<<>>}, visibles |-> {None},
   mayFail |-> TRUE, mayCancel |-> TRUE]

\* matching and the disambiguator, over every answer of the index
SelectEnv ==
  [name |-> "select", slots |-> {1}, insts |-> {1}, uriInsts |-> {1}, startInsts |-> {1}, layouts |-> Layouts({<<P>>}, {<<P>>}),
   symbols |-> {Foo}, cwds |-> {P},
   kinds |-> {None, "Class", "Function", "Klass"},
   results |-> SeqsUpTo(Candidates, MaxResults),
   retry |-> {1},
   notOpen |-> {"new-window"}, notFound |-> {"search"},
   multi |-> {"first", "quickpick", "workspace-priority"},
   priorities |-> {defaultSymbolSortPriority, <<"Class">>, <<"Class", "Klass">>},
   languages |-> {None}, detectors |-> {<<>>}, visibles |-> {None},
   mayFail |-> FALSE, mayCancel |-> FALSE]

\* the characters the normalisation tells apart, and a letter in both cases
Alphabet == {"a", "A", ".", "(", ")"}

\* the raw names the index may give a symbol
MaxLen == 4
Names == UNION {[1..k -> Alphabet] : k \in 0..MaxLen}

\* name normalisation, over answers of one candidate of any raw name
NameEnv ==
  [name |-> "name", slots |-> {1}, insts |-> {1}, uriInsts |-> {1}, startInsts |-> {1}, layouts |-> Layouts({<<P>>}, {<<P>>}),
   symbols |-> {Foo}, cwds |-> {P},
   kinds |-> {None},
   results |-> {<<[FooFunction EXCEPT !.name = n]>> : n \in Names},
   retry |-> {1},
   notOpen |-> {"new-window"}, notFound |-> {"search"},
   multi |-> {"first"},
   priorities |-> {defaultSymbolSortPriority},
   languages |-> {None}, detectors |-> {<<>>}, visibles |-> {None},
   mayFail |-> FALSE, mayCancel |-> FALSE]

\* index activation
LspEnv ==
  [name |-> "lsp", slots |-> {1}, insts |-> {1}, uriInsts |-> {1}, startInsts |-> {1}, layouts |-> Layouts({<<P>>}, {<<P>>}),
   symbols |-> {Foo}, cwds |-> {P},
   kinds |-> {None},
   results |-> {<<>>, <<FooFunction>>},
   retry |-> {0, 1, MaxRetry},
   notOpen |-> {"new-window"}, notFound |-> {"search"},
   multi |-> {"first"},
   priorities |-> {defaultSymbolSortPriority},
   languages |-> {None, "go", "cpp"}, detectors |-> {<<>>, langDetectors},
   visibles |-> {None, "go"},
   mayFail |-> FALSE, mayCancel |-> FALSE]

\* the handoff, one event task at a time
HandoffEnv ==
  [name |-> "handoff", slots |-> {1}, insts |-> Inst, uriInsts |-> Inst, startInsts |-> Inst,
   layouts |-> Layouts({<<P>>, <<Q, P>>, <<>>}, {<<P>>, <<Q, P>>, <<>>}),
   symbols |-> {<<>>, Foo}, cwds |-> {<<>>, P, Q},
   kinds |-> {None, "Class"},
   results |-> {<<>>, <<FooFunction>>},
   retry |-> {0, 1},
   notOpen |-> {"new-window", "current-window", "error"},
   notFound |-> {"search", "error"},
   multi |-> {"first"},
   priorities |-> {defaultSymbolSortPriority},
   languages |-> {None}, detectors |-> {<<>>}, visibles |-> {None},
   mayFail |-> FALSE, mayCancel |-> FALSE]

\* the handoff with event tasks of several windows running at once; the
\* windows are up already and take the record on focus
ConcurrentEnv ==
  [name |-> "concurrent", slots |-> Tasks, insts |-> Inst, uriInsts |-> {1}, startInsts |-> {}, layouts |-> Layouts({<<Q>>}, {<<P>>}),
   symbols |-> {Foo}, cwds |-> {P},
   kinds |-> {None},
   results |-> {<<FooFunction>>},
   retry |-> {0},
   notOpen |-> {"new-window"},
   notFound |-> {"error"},
   multi |-> {"first"},
   priorities |-> {defaultSymbolSortPriority},
   languages |-> {None}, detectors |-> {<<>>}, visibles |-> {None},
   mayFail |-> FALSE, mayCancel |-> FALSE]

EnvProfiles == {ResolveEnv, SelectEnv, NameEnv, LspEnv, HandoffEnv, ConcurrentEnv}

\* what the host offers in this run
Host == CHOOSE p \in EnvProfiles : p.name = env

\* the settings getConfig() may return where openSymbol reads them, and the
\* language of the document in the window's visible editor at that moment
OpenCfgs ==
  [language : Host.languages, langDetectors : Host.detectors,
   symbolNotFoundBehavior : Host.notFound, visible : Host.visibles]

\* the settings getConfig() may return where tryResolveSymbol reads them
SelectCfgs ==
  [multipleSymbolBehavior : Host.multi, symbolSortPriority : Host.priorities]

NoCfg ==
  [language |-> None, langDetectors |-> <<>>, symbolNotFoundBehavior |-> None,
   visible |-> None]

SetTask(t, tk) == task' = [task EXCEPT ![t] = tk]

\* slot t holds no running task
Vacant(t) == t \in Host.slots /\ task[t].pc \in {"idle", "done"}

\* the slots are interchangeable: an event takes the first vacant one
Free(t) == Vacant(t) /\ \A u \in 1..(t - 1) : ~Vacant(u)

Frame == UNCHANGED <<env, workspaceFolders, pendingUri, pendingBy, serial>>

\* ------------------------------------------------------------------- actions
\* the registered UriHandler receives a URI in window i
HandleUri(t) ==
  /\ Free(t)
  /\ \E i \in Host.uriInsts, symbol \in Host.symbols, cwd \in Host.cwds, kind \in Host.kinds :
       LET present == symbol # <<>> /\ cwd # <<>>
           open == present /\ isWorkspaceOpen(i, cwd)
       IN \E notOpen \in (IF present /\ ~open THEN Host.notOpen ELSE {None}),
             cfg \in (IF open THEN OpenCfgs ELSE {NoCfg}) :
            SetTask(t, handleUri(i, symbol, cwd, kind, notOpen, cfg))
  /\ Frame

\* a save that keeps a record already in the slot
HandleUriSaved_KeepFirst(t) ==
  /\ task[t].pc = "h_update"
  /\ serial < MaxSaves
  /\ pendingUri' = IF pendingUri = NoPending THEN PendingOf(task[t]) ELSE pendingUri
  /\ serial' = serial + 1
  /\ pendingBy' = IF pendingUri = NoPending THEN serial + 1 ELSE pendingBy
  /\ SetTask(t, handleUriOpenFolder(task[t], serial + 1))
  /\ UNCHANGED <<env, workspaceFolders>>

\* globalState.update(PENDING_URI_KEY, pendingUri) lands and resolves
HandleUriSaved(t) ==
  /\ task[t].pc = "h_update"
  /\ serial < MaxSaves
  /\ pendingUri' = PendingOf(task[t])
  /\ serial' = serial + 1
  /\ pendingBy' = serial + 1
  /\ SetTask(t, handleUriOpenFolder(task[t], serial + 1))
  /\ UNCHANGED <<env, workspaceFolders>>

\* a Memento whose update changes the window's own value only when it lands
Settled_Late(i) == TRUE

\* globalState.update changes the window's own Memento when it is called, so a
\* get in window i never runs between a call of update in window i and the
\* moment that update lands
Settled(i) == \A u \in Tasks : task[u].inst = i => task[u].pc \notin {"h_update", "p_update"}

\* activate() calls processPendingUri() in window i
Startup(t) ==
  /\ Free(t)
  /\ \E i \in Host.startInsts :
       /\ Settled(i)
       /\ SetTask(t, processPendingUri(i, "startup", pendingUri, pendingBy))
  /\ Frame

\* onDidChangeWindowState with e.focused calls processPendingUri() in window i
Focus(t) ==
  /\ Free(t)
  /\ \E i \in Host.insts :
       /\ Settled(i)
       /\ SetTask(t, processPendingUri(i, "focus", pendingUri, pendingBy))
  /\ Frame

\* globalState.update(PENDING_URI_KEY, undefined) lands and resolves
ProcessPendingCleared(t) ==
  /\ task[t].pc = "p_update"
  /\ pendingUri' = NoPending
  /\ pendingBy' = 0
  /\ \E cfg \in OpenCfgs : SetTask(t, processPendingUriCleared(task[t], cfg))
  /\ UNCHANGED <<env, workspaceFolders, serial>>

\* findFiles(marker) of activateLsp returned
MarkerFound(t) ==
  /\ task[t].pc = "lsp_marker"
  /\ \E found \in BOOLEAN : SetTask(t, activateLspMarker(task[t], found))
  /\ Frame

\* findFiles(glob, exclude) of activateLsp returned
GlobFound(t) ==
  /\ task[t].pc = "lsp_glob"
  /\ \E found \in BOOLEAN : SetTask(t, activateLspGlob(task[t], found))
  /\ Frame

\* openTextDocument(sourceFiles[0]) of activateLsp resolved
SourceLoaded(t) ==
  /\ task[t].pc = "lsp_load"
  /\ SetTask(t, resolveSymbol(task[t]))
  /\ Frame

\* the host runs the withProgress callback
ProgressStarts(t) ==
  /\ task[t].pc = "progress"
  /\ \E retryCount \in Host.retry : SetTask(t, withProgress(task[t], retryCount))
  /\ Frame

QueryHashReturns(t) ==
  /\ task[t].pc = "q_hash"
  /\ \E symbols \in Host.results, cfg \in SelectCfgs :
       SetTask(t, findSymbolsHash(task[t], symbols, cfg))
  /\ Frame

QueryPlainReturns(t) ==
  /\ task[t].pc = "q_plain"
  /\ \E symbols \in Host.results, cfg \in SelectCfgs :
       SetTask(t, findSymbolsPlain(task[t], symbols, cfg))
  /\ Frame

\* the message of the Error executeCommand rejects with
Rejected == "rejected"

\* executeCommand rejects with an Error
QueryThrows(t) ==
  /\ Host.mayFail
  /\ task[t].pc \in {"q_hash", "q_plain"}
  /\ SetTask(t, OpenSymbolCatch(Emit(task[t], <<"result", "throw">>), Rejected))
  /\ Frame

Picked(t) ==
  /\ task[t].pc = "pick"
  /\ \E choice \in 0..Len(task[t].items) : SetTask(t, selectSymbolPicked(task[t], choice))
  /\ Frame

FuzzyPicked(t) ==
  /\ task[t].pc = "fuzzypick"
  /\ \E choice \in 0..Len(task[t].items) : SetTask(t, selectFuzzyMatch(task[t], choice))
  /\ Frame

\* the setTimeout of the retry interval fires: attempt++ and the loop head
RetryTimer(t) ==
  /\ task[t].pc = "wait"
  /\ SetTask(t, LoopHead([task[t] EXCEPT !.attempt = @ + 1]))
  /\ Frame

\* the user cancels the progress: token.isCancellationRequested becomes true
Cancel(t) ==
  /\ Host.mayCancel
  /\ task[t].pc \in {"q_hash", "q_plain", "pick", "fuzzypick", "wait"}
  /\ ~task[t].token
  /\ SetTask(t, [task[t] EXCEPT !.token = TRUE])
  /\ Frame

\* openTextDocument(location.uri) resolved: showTextDocument
DocumentOpened(t) ==
  /\ task[t].pc = "nav_open"
  /\ SetTask(t, [Emit(task[t], <<"showTextDocument", "nav">>) EXCEPT !.pc = "nav_show"])
  /\ Frame

\* showTextDocument resolved: selection and revealRange
DocumentShown(t) ==
  /\ task[t].pc = "nav_show"
  /\ SetTask(t, [Emit(task[t], <<"revealRange", "nav">>) EXCEPT !.pc = "done"])
  /\ Frame

Init ==
  /\ env \in {p.name : p \in EnvProfiles}
  /\ workspaceFolders \in Host.layouts
  /\ pendingUri = NoPending
  /\ pendingBy = 0
  /\ serial = 0
  /\ task = [t \in Tasks |-> IdleTask]

Next ==
  \E t \in Tasks :
    \/ HandleUri(t)
    \/ HandleUriSaved(t)
    \/ Startup(t)
    \/ Focus(t)
    \/ ProcessPendingCleared(t)
    \/ MarkerFound(t)
    \/ GlobFound(t)
    \/ SourceLoaded(t)
    \/ ProgressStarts(t)
    \/ QueryHashReturns(t)
    \/ QueryPlainReturns(t)
    \/ QueryThrows(t)
    \/ Picked(t)
    \/ FuzzyPicked(t)
    \/ RetryTimer(t)
    \/ Cancel(t)
    \/ DocumentOpened(t)
    \/ DocumentShown(t)

Spec == Init /\ [][Next]_vars

\* the promise of globalState.update(PENDING_URI_KEY, undefined) is eventually
\* resolved and the awaiting processPendingUri is then scheduled
FairSpec == Spec /\ \A t \in Tasks : WF_vars(ProcessPendingCleared(t))

\* the runs in which the progress of the retry loop is examined: those that
\* draw the index answers from a few lists rather than from every list
LoopProfiles == {"resolve", "lsp", "handoff", "concurrent"}

\* what the retry loop of task t awaits returns: the withProgress callback is
\* run, an index query answers, the retry interval ends, a picker closes
LoopAwaitReturns(t) ==
  /\ env \in LoopProfiles
  /\ \/ ProgressStarts(t)
     \/ QueryHashReturns(t)
     \/ QueryPlainReturns(t)
     \/ RetryTimer(t)
     \/ Picked(t)
     \/ FuzzyPicked(t)

\* every promise resolveSymbol awaits is eventually settled
ResolveFairSpec == Spec /\ \A t \in Tasks : WF_vars(LoopAwaitReturns(t))

\* ------------------------------------------------------- what a task has done
\* number of log entries <<op, arg>>
CountArg(l, op, arg) == Cardinality({i \in DOMAIN l : l[i][1] = op /\ l[i][2] = arg})

Has(l, op, arg) == \E i \in DOMAIN l : l[i][1] = op /\ l[i][2] = arg

\* the task reached resolveSymbol
Attempted(tk) == Has(tk.log, "withProgress", "call")

\* rounds and index queries the task issued
Rounds(tk) == CountArg(tk.log, "query", "#")
Queries(tk) == Count(tk.log, "query")

\* every index query of the task returned an empty result
AllEmpty(tk) == \A i \in DOMAIN tk.log : tk.log[i][1] = "result" => tk.log[i][2] = "empty"

\* the signals that end a request
Navigated(tk) == Has(tk.log, "openTextDocument", "nav")
NotFoundSignal(tk) == Count(tk.log, "findInFiles") > 0 \/ Has(tk.log, "showErrorMessage", "notFound")
CancelledSignal(tk) == Has(tk.log, "log", "cancelled")
Aborted(tk) ==
  \E i \in DOMAIN tk.log :
    tk.log[i][1] = "showErrorMessage" /\ tk.log[i][2] \notin {"notFound", "missing", "notOpen"}

Terminal(tk) == tk.pc = "done" /\ Attempted(tk)

C2_NonEmptyRoundIsLast ==
  \A t \in Tasks :
    \A i, j \in DOMAIN task[t].log :
      (i < j /\ task[t].log[i][1] = "result" /\ task[t].log[i][2] = "nonempty")
        => task[t].log[j][1] # "query"

\* C3: once a round has a candidate that matches the name exactly and passes
\* the kind filter (selectSymbol is called), no further index query is issued,
\* whatever the disambiguator returns; a dismissed picker ends the attempt with
\* Cancelled alone.
C3_ExactMatchEndsAttempt ==
  \A t \in Tasks :
    /\ \A i, j \in DOMAIN task[t].log :
         (i < j /\ task[t].log[i][1] = "selectSymbol") => task[t].log[j][1] # "query"
    /\ (Has(task[t].log, "showQuickPick", "exact") /\ Has(task[t].log, "picked", "none")) =>
         /\ task[t].pc = "done"
         /\ CancelledSignal(task[t])
         /\ ~Navigated(task[t]) /\ ~NotFoundSignal(task[t])
         /\ task[t].log[Len(task[t].log) - 1][1] = "picked"

\* the picker over the exact matches was dismissed in round 1 of MaxRetry
C3_Witness ==
  \E t \in Tasks :
    /\ task[t].pc = "done" /\ task[t].retryCount = MaxRetry
    /\ Has(task[t].log, "showQuickPick", "exact") /\ Has(task[t].log, "picked", "none")
    /\ Rounds(task[t]) = 1

\* the number of outcome signals a task produced
Outcomes(tk) ==
  (IF Navigated(tk) THEN 1 ELSE 0) + (IF NotFoundSignal(tk) THEN 1 ELSE 0)
    + (IF CancelledSignal(tk) THEN 1 ELSE 0)

UriDone(tk) == tk.ev = "uri" /\ tk.pc = "done"

\* C5: handleUri for a project that is not open, with policy 'new-window',
\* saves exactly one PendingRequest {symbol, cwd, kind} equal to the request,
\* calls openFolder exactly once with forceNewWindow = true, and issues no
\* index query and no index-activation step.
C5_Handoff ==
  \A t \in Tasks :
    (task[t].ev = "uri" /\ task[t].notOpen = "new-window") =>
      /\ task[t].pc \in {"h_update", "done"}
      /\ task[t].pc = "h_update" => task[t].log = <<>>
      /\ task[t].pc = "done" =>
           /\ task[t].log = << <<"update", "save">>, <<"openFolder", "forceNewWindow">> >>
           /\ task[t].stamp \in 1..serial
           /\ pendingBy = task[t].stamp =>
                pendingUri = [symbol |-> task[t].symbol, cwd |-> task[t].cwd,
                              kind |-> task[t].kind]

\* a request with a kind hint was handed off and its record is in the slot
C5_Witness ==
  \E t \in Tasks :
    /\ UriDone(task[t]) /\ task[t].notOpen = "new-window"
    /\ ~isWorkspaceOpen(task[t].inst, task[t].cwd)
    /\ task[t].kind = "Class"
    /\ pendingBy = task[t].stamp /\ pendingUri.kind = "Class"

\* C6: handleUri for a project that is not open, with policy 'error', shows the
\* error and stops in the same step: the pending slot is left as it was, no
\* open-project call is made and no index query is issued.
C6_ErrorPolicy ==
  [][\A t \in Tasks :
       (task'[t] # task[t] /\ task'[t].ev = "uri" /\ task'[t].notOpen = "error") =>
         /\ task'[t].pc = "done"
         /\ task'[t].log = << <<"showErrorMessage", "notOpen">> >>
         /\ task'[t].stamp = 0
         /\ pendingUri' = pendingUri /\ pendingBy' = pendingBy /\ serial' = serial]_vars

\* the error was shown while a record of an earlier handoff is in the slot
C6_Witness ==
  \E t \in Tasks :
    /\ UriDone(task[t]) /\ task[t].notOpen = "error"
    /\ ~isWorkspaceOpen(task[t].inst, task[t].cwd)
    /\ pendingUri # NoPending

\* a processPendingUri task
IsPending(tk) == tk.ev \in {"startup", "focus"}

\* C7: processPendingUri in a window that has the record's project open takes
\* the record's symbol, cwd and kind, clears the slot before any index
\* activation or index query, and then runs openSymbol exactly as handleUri
\* does for the same symbol and kind in that window.
C7_ClearThenResolve ==
  [][\A t \in Tasks :
       /\ (task'[t] # task[t] /\ task'[t].pc = "p_update") =>
            /\ IsPending(task'[t]) /\ task'[t].log = <<>>
            /\ isWorkspaceOpen(task'[t].inst, pendingUri.cwd)
            /\ pendingUri = [symbol |-> task'[t].symbol, cwd |-> task'[t].cwd,
                             kind |-> task'[t].kind]
       /\ (task'[t] # task[t] /\ task[t].pc = "p_update") =>
            /\ pendingUri' = NoPending
            /\ \E cfg \in OpenCfgs :
                 LET direct == handleUri(task[t].inst, task[t].symbol, task[t].cwd,
                                         task[t].kind, None, cfg)
                 IN task'[t] = [direct EXCEPT
                                  !.ev = task[t].ev, !.stamp = task[t].stamp,
                                  !.log = << <<"update", "clear">> >> \o direct.log]]_vars

\* a record with a kind hint was consumed and its resolution has ended
C7_Witness ==
  \E t \in Tasks :
    /\ IsPending(task[t]) /\ Terminal(task[t]) /\ task[t].kind = "Class"
    /\ task[t].log[1][1] = "update"
    /\ pendingUri = NoPending

Claiming(t, s) == task[t].pc = "p_update" /\ task[t].stamp = s

\* C9 (as stated): between one processPendingUri task's read of a record and
\* its clear, no other processPendingUri task, in the same or another window,
\* reads the same record and also starts a resolution for it.
C9_AsStated ==
  \A t, u \in Tasks, s \in 1..MaxSaves : (Claiming(t, s) /\ Claiming(u, s)) => t = u

\* C9 (amended): between one processPendingUri task's read of a record and its
\* clear, no other processPendingUri task of the same window reads the same
\* record; a task of another window that has the project open can, and then
\* both resolve it.
C9_OncePerWindow ==
  \A t, u \in Tasks, s \in 1..MaxSaves :
    (Claiming(t, s) /\ Claiming(u, s) /\ task[t].inst = task[u].inst) => t = u

\* two windows are both between the read and the clear of the same record
C9_Witness ==
  \E t, u \in Tasks, s \in 1..MaxSaves :
    /\ t # u /\ Claiming(t, s) /\ Claiming(u, s)
    /\ task[t].inst # task[u].inst

\* C10 (as stated): a request overwritten before its clear is never resolved
\* afterwards: a processPendingUri task starts its resolution only for the
\* most recently saved request.
C10_AsStated ==
  [][\A t \in Tasks :
       (task'[t] # task[t] /\ task[t].pc = "p_update") => task[t].stamp = serial]_vars

\* C10 (amended): the slot holds at most one PendingRequest; a save replaces
\* whatever the slot holds, so the slot holds the most recently saved request
\* or nothing, and every read of the slot returns the most recently saved
\* request; only a task that had already read a request before a later save
\* can still resolve it afterwards.
C10_LastWriteWins ==
  [][/\ pendingBy' \in {0, serial'}
     /\ pendingBy' = 0 <=> pendingUri' = NoPending
     /\ \A t \in Tasks :
          /\ (task'[t] # task[t] /\ task[t].pc = "h_update") =>
               /\ pendingBy' = serial' /\ serial' = serial + 1
               /\ pendingUri' = [symbol |-> task[t].symbol, cwd |-> task[t].cwd,
                                 kind |-> task[t].kind]
          /\ (task'[t] # task[t] /\ task[t].pc \in {"idle", "done"} /\ IsPending(task'[t])) =>
               /\ task'[t].stamp = pendingBy
               /\ task'[t].stamp \in {0, serial}]_vars

\* a second save replaced the record of the first
C10_Witness ==
  /\ serial = 2 /\ pendingBy = 2
  /\ \E t, u \in Tasks :
       /\ UriDone(task[t]) /\ task[t].stamp = 2
       /\ IsPending(task[u]) /\ task[u].stamp = 1 /\ task[u].pc # "p_update"
       /\ task[u].log # <<>>

\* the task has cleared the slot and gone on into openSymbol
Resolving(tk) ==
  /\ IsPending(tk) /\ Len(tk.log) >= 2
  /\ tk.log[1][1] = "update" /\ tk.log[1][2] = "clear"
  /\ tk.log[2][1] \in {"findFiles", "withProgress"}

\* C11: a window that has the record's project open and whose startup or focus
\* event has read the record eventually clears the slot and runs the
\* resolution for that record, whatever other windows save or clear meanwhile.
C11_EventuallyConsumed ==
  /\ \A t \in Tasks :
       (task[t].pc = "p_update") ~> (Resolving(task[t]) /\ pendingUri = NoPending)
  /\ [][\A t \in Tasks :
          task[t].pc = "p_update" =>
            (task[t].stamp > 0 /\ task'[t].stamp = task[t].stamp)]_vars

\* a focus event found the record of a handoff and its resolution is under way
C11_Witness ==
  \E t \in Tasks :
    /\ task[t].ev = "focus" /\ Resolving(task[t]) /\ task[t].stamp > 0
    /\ isWorkspaceOpen(task[t].inst, task[t].cwd)
    /\ task[t].pc = "progress"

\* ------------------------------------------------------------ the kind filter
\* the kinds the tests of the kind filter expect a hint to admit
AdmittedKinds(kind) ==
  {parseSymbolKind(kind)} \cup
    (IF kind = "Function"
     THEN {buildKindNameToEnum.Method, buildKindNameToEnum.Constructor}
     ELSE {})

\* C12: under a kind hint of the vocabulary the kind filter keeps exactly the
\* candidates whose kind is the hint's, or, for the hint Function, a Method or
\* a Constructor; and the disambiguator runs exactly when a candidate with the
\* requested name passes that filter.
C12_KindFilter ==
  \A t \in Tasks :
    LET tk == task[t]
        kept == SelectSeqBy(tk.seen,
                  {s \in Range(tk.seen) : s.kind \in AdmittedKinds(tk.kind)})
    IN (tk.seen # <<>> /\ KindFilterApplies(tk.kind)) =>
         /\ FilterByKind(tk.seen, tk.kind) = kept
         /\ Has(tk.log, "selectSymbol", "call") <=>
              \E i \in DOMAIN kept : NormalizeName(kept[i].name) = tk.symbol

\* -------------------------------------------------------- configuration errors
\* the request carries a kind hint that is not a name of the vocabulary
UnknownKindHint(tk) ==
  tk.kind # None /\ tk.kind # "" /\ parseSymbolKind(tk.kind) = NoKind

\* C13: a request whose kind hint is outside the kind vocabulary is aborted
\* with a user-visible error: it ends with the error message, no candidate is
\* returned, nothing is navigated to and no retry round follows the first.
C13_UnknownKindAborts ==
  \A t \in Tasks :
    (UnknownKindHint(task[t]) /\ Attempted(task[t])) =>
      /\ task[t].ret = ResNone
      /\ ~Navigated(task[t])
      /\ Rounds(task[t]) <= 1
      /\ Terminal(task[t]) => Aborted(task[t])

\* the last call the task made to the host
LastCall(tk) == tk.log[Len(tk.log)]

EndsWithCall(raw) ==
  Len(raw) >= 2 /\ raw[Len(raw) - 1] = "(" /\ raw[Len(raw)] = ")"

\* raw, less one trailing "()" if it has one, is q itself or ends with "." q,
\* and q contains no "."
IsExactFor(raw, q) ==
  \E m \in {SubSeq(raw, 1, Len(raw) - (IF EndsWithCall(raw) THEN 2 ELSE 0))} :
    /\ Len(m) >= Len(q)
    /\ SubSeq(m, Len(m) - Len(q) + 1, Len(m)) = q
    /\ \A i \in DOMAIN q : q[i] # "."
    /\ Len(m) > Len(q) => m[Len(m) - Len(q)] = "."

\* the candidate passes the kind filter of the request
PassesKind(tk, c) == KindFilterApplies(tk.kind) => c.kind = parseSymbolKind(tk.kind)

\* C15: a candidate is an exact match for the query name q iff its raw name,
\* less one trailing "()" and then cut to the text after its last ".", equals
\* q with the same letter case; the disambiguator is called exactly when the
\* answer holds an exact match that passes the kind filter, only such
\* candidates reach its picker or are returned by it, and the fuzzy picker is
\* shown only when there is none.
C15_ExactMatch ==
  \A t \in Tasks :
    LET tk == task[t]
        exact == {c \in Range(tk.seen) : IsExactFor(c.name, tk.symbol) /\ PassesKind(tk, c)}
    IN tk.seen # <<>> =>
         /\ \A c \in Range(tk.seen) :
              (NormalizeName(c.name) = tk.symbol) <=> IsExactFor(c.name, tk.symbol)
         /\ Has(tk.log, "selectSymbol", "call") <=> exact # {}
         /\ tk.pc = "pick" => Range(tk.items) = exact
         /\ (Has(tk.log, "selectSymbol", "call") /\ tk.ret.symbol # NoSymbol) =>
              tk.ret.symbol \in exact
         /\ Has(tk.log, "showQuickPick", "fuzzy") => exact = {}

\* a qualified name with the call suffix was matched and returned, next to a
\* candidate that was not
C15_Witness ==
  \E t \in Tasks :
    /\ Navigated(task[t])
    /\ task[t].ret.symbol \in Range(task[t].seen)
    /\ EndsWithCall(task[t].ret.symbol.name)
    /\ LastDot(task[t].ret.symbol.name) # 0
    /\ NormalizeName(task[t].ret.symbol.name) = task[t].symbol
    /\ \E c \in Range(task[t].seen) : ~IsExactFor(c.name, task[t].symbol)

\* raw ends with two call suffixes, "()()"
EndsWithTwoCalls(raw) ==
  EndsWithCall(raw) /\ EndsWithCall(SubSeq(raw, 1, Len(raw) - 2))

\* the raw names of the candidates the task was given
SeenNames(tk) == {tk.seen[i].name : i \in DOMAIN tk.seen}

\* C16 (as stated): name normalisation is idempotent: for every raw name s
\* made of letters, ".", "(" and ")", normalize(normalize(s)) = normalize(s).
C16_AsStated ==
  \A t \in Tasks : \A s \in SeenNames(task[t]) :
    NormalizeName(NormalizeName(s)) = NormalizeName(s)

\* C16 (amended): normalize(normalize(s)) = normalize(s) for every raw name s
\* that does not end with "()()".  For a name that does, one "()" is left in
\* the normalised name and a second pass removes it.
C16_IdempotentButCalls ==
  \A t \in Tasks : \A s \in SeenNames(task[t]) :
    IF EndsWithTwoCalls(s)
    THEN /\ EndsWithCall(NormalizeName(s))
         /\ NormalizeName(NormalizeName(s)) = StripCallSuffix(NormalizeName(s))
         /\ NormalizeName(NormalizeName(s)) # NormalizeName(s)
    ELSE NormalizeName(NormalizeName(s)) = NormalizeName(s)

\* the index gave a qualified name with a call suffix, which one pass
\* normalises for good, and the request went on to open it
C16_Witness ==
  \E t \in Tasks : \E s \in SeenNames(task[t]) :
    /\ EndsWithCall(s) /\ ~EndsWithTwoCalls(s) /\ LastDot(s) # 0
    /\ NormalizeName(s) = task[t].symbol
    /\ Navigated(task[t])

\* ------------------------------------------------------------ disambiguation
\* the exact matches of the round that pass the kind filter, in index order
ExactOf(tk) ==
  SelectSeqBy(tk.seen,
    {c \in Range(tk.seen) : IsExactFor(c.name, tk.symbol) /\ PassesKind(tk, c)})

\* position of candidate c in the list s
PosIn(s, c) == CHOOSE i \in DOMAIN s : s[i] = c

\* rank of a kind under a priority list of distinct names: the position of its
\* name, and a rank after all of them for a kind that is not listed
RankIn(priority, kind) ==
  IF \E i \in DOMAIN priority : parseSymbolKind(priority[i]) = kind
  THEN CHOOSE i \in DOMAIN priority : parseSymbolKind(priority[i]) = kind
  ELSE Len(priority) + 1

\* out holds the candidates of in, by ascending rank, and candidates of equal
\* rank in the order they have in in
SortedByRank(out, in, priority) ==
  /\ Len(out) = Len(in) /\ Range(out) = Range(in)
  /\ \A i, j \in DOMAIN out :
       i < j =>
         /\ RankIn(priority, out[i].kind) <= RankIn(priority, out[j].kind)
         /\ RankIn(priority, out[i].kind) = RankIn(priority, out[j].kind) =>
              PosIn(in, out[i]) < PosIn(in, out[j])

\* the list has no name twice
Distinct(priority) ==
  \A i, j \in DOMAIN priority : i # j => priority[i] # priority[j]

\* C17: for a priority list of distinct valid kind names sortByKindPriority
\* returns a permutation of its input by ascending rank, the rank of a kind
\* being the position of its name in the list: candidates of kinds that are
\* not listed come after every candidate of a listed kind, and candidates of
\* equal rank (the unlisted ones included) keep their original order.  The
\* picker of the disambiguator shows the exact matches in that order.
C17_StableSort ==
  \A t \in Tasks :
    LET tk == task[t]
    IN (tk.seen # <<>> /\ Distinct(tk.priority) /\ ~InvalidPriority(tk.priority)) =>
         /\ SortedByRank(sortByKindPriority(tk.seen, tk.priority), tk.seen, tk.priority)
         /\ tk.pc = "pick" => SortedByRank(tk.items, ExactOf(tk), tk.priority)

\* the picker shows three candidates: a Class first, then two of kinds that
\* are not listed, in the order of the index's answer and not in that of
\* their kind codes
C17_Witness ==
  \E t \in Tasks :
    /\ task[t].pc = "pick" /\ Len(task[t].items) = 3
    /\ task[t].priority = <<"Class">>
    /\ task[t].items[1].kind = buildKindNameToEnum.Class
    /\ task[t].items[2].kind > task[t].items[3].kind
    /\ task[t].seen[1] = task[t].items[2]

\* the candidate of the non-empty list s that the priority list puts first:
\* none has a lower rank, and none of the same rank comes earlier in s
TopOf(s, priority) ==
  CHOOSE c \in Range(s) :
    \A d \in Range(s) :
      \/ RankIn(priority, c.kind) < RankIn(priority, d.kind)
      \/ RankIn(priority, c.kind) = RankIn(priority, d.kind) /\ PosIn(s, c) <= PosIn(s, d)

\* a round of the task called the disambiguator under a valid priority list
Disambiguated(tk) ==
  tk.seen # <<>> /\ ExactOf(tk) # <<>> /\ ~InvalidPriority(tk.priority)

\* C18: with the policy 'first', or with exactly one exact candidate under any
\* policy, the disambiguator returns the top of the list sorted by kind
\* priority and shows no picker; the request then navigates to that candidate.
\* Candidates [Function, Class] under the default list resolve to the Class.
C18_FirstReturnsTop ==
  \A t \in Tasks :
    LET tk == task[t]
    IN (Disambiguated(tk) /\ (tk.multi = "first" \/ Len(ExactOf(tk)) = 1)) =>
         /\ tk.ret = ResFound(TopOf(ExactOf(tk), tk.priority))
         /\ Count(tk.log, "showQuickPick") = 0
         /\ tk.pc \in {"nav_open", "nav_show", "done"}
         /\ ~NotFoundSignal(tk) /\ ~CancelledSignal(tk) /\ ~Aborted(tk)
         /\ (ExactOf(tk) = <<FooFunction, FooClass>> /\ tk.priority = defaultSymbolSortPriority) =>
              tk.ret.symbol = FooClass

\* the index answered [Function, Class], the policy is 'first' and the list
\* the default one: the request opened the Class candidate
C18_Witness ==
  \E t \in Tasks :
    /\ task[t].seen = <<FooFunction, FooClass>>
    /\ task[t].kind = None
    /\ task[t].multi = "first" /\ task[t].priority = defaultSymbolSortPriority
    /\ task[t].ret = ResFound(FooClass)
    /\ Navigated(task[t]) /\ task[t].pc = "done"

\* C19: with the policy 'quickpick' and two or more exact candidates the
\* picker is shown exactly once, with the candidates sorted by kind priority.
\* A choice ends the request with Found at a candidate of the picker and a
\* navigation to it; a dismissed picker ends it Cancelled, with no navigation,
\* no not-found signal and no further round.
C19_QuickPick ==
  \A t \in Tasks :
    LET tk == task[t]
    IN (Disambiguated(tk) /\ tk.multi = "quickpick" /\ Len(ExactOf(tk)) >= 2) =>
         /\ Count(tk.log, "showQuickPick") = 1
         /\ Has(tk.log, "showQuickPick", "exact")
         /\ Count(tk.log, "picked") = IF tk.pc = "pick" THEN 0 ELSE 1
         /\ tk.pc = "pick" =>
              /\ SortedByRank(tk.items, ExactOf(tk), tk.priority)
              /\ tk.ret = ResNone
         /\ Has(tk.log, "picked", "item") =>
              /\ tk.ret.symbol \in Range(ExactOf(tk)) /\ ~tk.ret.cancelled
              /\ tk.pc \in {"nav_open", "nav_show", "done"}
              /\ ~NotFoundSignal(tk) /\ ~CancelledSignal(tk)
         /\ Has(tk.log, "picked", "none") =>
              /\ tk.ret = ResCancelled
              /\ tk.pc = "done" /\ CancelledSignal(tk)
              /\ ~Navigated(tk) /\ ~NotFoundSignal(tk)
              /\ LastCall(tk) = <<"log", "cancelled">>

\* the picker showed several candidates and was dismissed with retries left
C19_Witness ==
  \E t \in Tasks :
    /\ task[t].multi = "quickpick" /\ Len(ExactOf(task[t])) >= 2
    /\ Has(task[t].log, "picked", "none")
    /\ task[t].ret = ResCancelled /\ task[t].pc = "done"
    /\ task[t].retryCount > Rounds(task[t])

\* path.startsWith(root)
StartsWith(path, root) ==
  Len(path) >= Len(root) /\ SubSeq(path, 1, Len(root)) = root

\* the candidate the test of 'workspace-priority' expects from the sorted
\* list: the first one under the earliest root that has one, else the first
WorkspaceChoice(sorted, roots) ==
  LET under(r) == {i \in DOMAIN sorted : StartsWith(sorted[i].path, roots[r])}
      hits == {r \in DOMAIN roots : under(r) # {}}
  IN IF hits = {} THEN sorted[1]
     ELSE LET r == CHOOSE x \in hits : \A y \in hits : x <= y
          IN sorted[CHOOSE i \in under(r) : \A j \in under(r) : i <= j]

\* C20: with the policy 'workspace-priority' and two or more exact candidates
\* the disambiguator goes through the window's project roots in order and
\* returns the first candidate of the sorted list that lies under the earliest
\* root holding one, or the top of the sorted list when no root holds one; it
\* shows no picker and never ends Cancelled.
C20_WorkspacePriority ==
  \A t \in Tasks :
    LET tk == task[t]
    IN (Disambiguated(tk) /\ tk.multi = "workspace-priority" /\ Len(ExactOf(tk)) >= 2) =>
         /\ tk.ret = ResFound(WorkspaceChoice(
                       sortByKindPriority(ExactOf(tk), tk.priority),
                       workspaceFolders[tk.inst]))
         /\ Count(tk.log, "showQuickPick") = 0
         /\ ~CancelledSignal(tk)

\* ------------------------------------------------------------ fuzzy matches
\* the candidates of the round that pass the kind filter, in index order
KindPassing(tk) ==
  SelectSeqBy(tk.seen, {c \in Range(tk.seen) : PassesKind(tk, c)})

\* the round had no exact match but candidates that pass the kind filter
FuzzyRound(tk) ==
  tk.seen # <<>> /\ ExactOf(tk) = <<>> /\ KindPassing(tk) # <<>>

\* C21: a non-empty round with no exact match that passes the kind filter,
\* but with candidates that pass it, shows those candidates in the picker with
\* the 'no exact match' prompt, once, under every disambiguation policy, 'first'
\* included, and without calling the disambiguator.  A choice ends the request
\* with Found at a candidate of the picker, a dismissed picker with Cancelled.
C21_FuzzyAlwaysPicks ==
  \A t \in Tasks :
    LET tk == task[t]
    IN FuzzyRound(tk) =>
         /\ Count(tk.log, "showQuickPick") = 1
         /\ Has(tk.log, "showQuickPick", "fuzzy")
         /\ ~Has(tk.log, "selectSymbol", "call")
         /\ Count(tk.log, "picked") = IF tk.pc = "fuzzypick" THEN 0 ELSE 1
         /\ tk.pc = "fuzzypick" => (tk.items = KindPassing(tk) /\ tk.ret = ResNone)
         /\ Has(tk.log, "picked", "item") =>
              /\ tk.ret.symbol \in Range(KindPassing(tk)) /\ ~tk.ret.cancelled
              /\ tk.pc \in {"nav_open", "nav_show", "done"}
              /\ ~NotFoundSignal(tk) /\ ~CancelledSignal(tk)
         /\ Has(tk.log, "picked", "none") =>
              /\ tk.ret = ResCancelled
              /\ tk.pc = "done" /\ CancelledSignal(tk)
              /\ ~Navigated(tk) /\ ~NotFoundSignal(tk)

\* under the policy 'first' and a kind hint the index named the symbol with
\* another kind; the fuzzy picker showed the candidate that passes the hint,
\* the user chose it and the request opened it
C21_Witness ==
  \E t \in Tasks :
    /\ FuzzyRound(task[t]) /\ task[t].multi = "first"
    /\ KindFilterApplies(task[t].kind)
    /\ Len(KindPassing(task[t])) < Len(task[t].seen)
    /\ Has(task[t].log, "picked", "item")
    /\ Navigated(task[t]) /\ task[t].pc = "done"

\* ---------------------------------------------------------------- cancellation
\* the task waits out the retry interval with another round still to come
BetweenRounds(tk) == tk.pc = "wait" /\ tk.attempt + 1 < tk.retryCount

\* C22: when the cancellation token is set between two rounds of an attempt,
\* the attempt issues no further index query: its next step ends it with
\* Cancelled, with no not-found signal and no navigation.
C22_CancelBetweenRounds ==
  [][\A t \in Tasks :
       (BetweenRounds(task[t]) /\ task[t].token /\ task'[t] # task[t]) =>
         /\ task'[t].pc = "done"
         /\ task'[t].ret = ResCancelled
         /\ task'[t].log = Append(task[t].log, <<"log", "cancelled">>)]_vars

\* an attempt with rounds left ended Cancelled after a round that found
\* nothing, with no picker involved
C22_Witness ==
  \E t \in Tasks :
    /\ Terminal(task[t]) /\ task[t].token /\ task[t].ret = ResCancelled
    /\ Count(task[t].log, "picked") = 0
    /\ Rounds(task[t]) >= 1 /\ Rounds(task[t]) < task[t].retryCount
    /\ Queries(task[t]) = 2 * Rounds(task[t])
    /\ ~NotFoundSignal(task[t]) /\ ~Navigated(task[t])

\* ---------------------------------------------------------------- parameters
\* the request of the task came by URI without its symbol or without its cwd
MissingParams(tk) == tk.ev = "uri" /\ (tk.symbol = <<>> \/ tk.cwd = <<>>)

\* C23: a handleUri request that lacks the symbol or the project path shows
\* one error and ends there: no index query, no index activation, no
\* open-project call, and the step leaves the pending slot as it was.
C23_MissingParamsAbort ==
  /\ [](\A t \in Tasks : MissingParams(task[t]) =>
          /\ task[t].pc = "done"
          /\ task[t].log = << <<"showErrorMessage", "missing">> >>)
  /\ [][\A t \in Tasks :
          (MissingParams(task'[t]) /\ task'[t] # task[t]) =>
            /\ pendingUri' = pendingUri
            /\ pendingBy' = pendingBy
            /\ serial' = serial]_vars

\* a request without its symbol ended while an earlier request's record is
\* in the pending slot
C23_Witness ==
  \E t \in Tasks :
    /\ MissingParams(task[t]) /\ task[t].symbol = <<>> /\ task[t].cwd # <<>>
    /\ task[t].pc = "done"
    /\ Has(task[t].log, "showErrorMessage", "missing")
    /\ pendingUri # NoPending

C25_DismissFallsBackToSearch ==
  \A t \in Tasks :
    LET tk == task[t]
    IN (Has(tk.log, "picked", "none") /\ tk.pc = "done") =>
         /\ Count(tk.log, "findInFiles") = 1
         /\ LastCall(tk) = <<"findInFiles", tk.symbol>>
         /\ Count(tk.log, "showErrorMessage") = 0

\* resolveSymbol returned an object with neither symbol nor cancelled set
NotFoundOutcome(tk) ==
  Terminal(tk) /\ tk.ret = ResNone /\ ~Aborted(tk) /\ ~CancelledSignal(tk)

\* C26: an attempt that ends NotFound is surfaced by the policy in force:
\* under 'search' by exactly one full-text search with the symbol name as its
\* query and no error message, under 'error' by exactly one 'not found' error
\* message and no search.
C26_NotFoundPerPolicy ==
  \A t \in Tasks :
    LET tk == task[t]
    IN NotFoundOutcome(tk) =>
         IF tk.notFound = "search"
         THEN /\ Count(tk.log, "findInFiles") = 1
              /\ LastCall(tk) = <<"findInFiles", tk.symbol>>
              /\ Count(tk.log, "showErrorMessage") = 0
         ELSE /\ Count(tk.log, "showErrorMessage") = 1
              /\ LastCall(tk) = <<"showErrorMessage", "notFound">>
              /\ Count(tk.log, "findInFiles") = 0

\* an attempt whose rounds all came back empty ended NotFound under 'error'
C26_Witness ==
  \E t \in Tasks :
    /\ NotFoundOutcome(task[t]) /\ task[t].notFound = "error"
    /\ Rounds(task[t]) = MaxRetry /\ AllEmpty(task[t])
    /\ Has(task[t].log, "showErrorMessage", "notFound")

\* ---------------------------------------------------------------- activation
\* the detectors a visible document is compared with: the override's
\* detector when a language is configured, every configured detector otherwise
DetectorsInForce(tk) ==
  {d \in DOMAIN tk.dets : tk.language = None \/ tk.dets[d].lang = tk.language}

\* the visible document's extension belongs to a detector in force
VisibleMatches(tk) ==
  tk.visible # None /\ \E d \in DetectorsInForce(tk) : tk.dets[d].lang = tk.visible

\* C27: an attempt whose index queries all return empty issues exactly one
\* round (two queries) when a visible document's extension belongs to a
\* detector in force, whatever retryCount is, and retryCount rounds otherwise.
C27_VisibleEditorSkipsRetries ==
  \A t \in Tasks :
    LET tk == task[t]
    IN (NotFoundOutcome(tk) /\ AllEmpty(tk) /\ tk.retryCount >= 1) =>
         /\ Rounds(tk) = IF VisibleMatches(tk) THEN 1 ELSE tk.retryCount
         /\ Queries(tk) = 2 * Rounds(tk)

\* the configured detectors whose lang is the language override
OverrideDetectors(tk) == {d \in DOMAIN tk.dets : tk.dets[d].lang = tk.language}

\* activateLsp has returned and resolveSymbol has been entered
Activated(tk) == Has(tk.log, "withProgress", "call")

\* some configured detector lists a marker
HasMarkers(tk) == \E d \in DOMAIN tk.dets : tk.dets[d].markers # <<>>

QueryAt(l, i, transform) == i \in DOMAIN l /\ l[i][1] = "query" /\ l[i][2] = transform

\* entry i of the log is an index answer of the given sort
ResultAt(l, i, sort) == i \in DOMAIN l /\ l[i][1] = "result" /\ l[i][2] = sort

\* C29: every round issues the '#'-prefixed query first and the plain query
\* second; the plain query is issued exactly when the prefixed one came back
\* empty, and the round's result is the first non-empty answer, or empty when
\* both answers are.
C29_QueryOrder ==
  \A t \in Tasks :
    LET tk == task[t]
        l == tk.log
    IN /\ \A i \in DOMAIN l :
            /\ QueryAt(l, i, "#") =>
                 /\ IF i + 1 \in DOMAIN l THEN l[i + 1][1] = "result" ELSE tk.pc = "q_hash"
                 /\ ResultAt(l, i + 1, "empty") => QueryAt(l, i + 2, "plain")
                 /\ ResultAt(l, i + 1, "nonempty") => ~QueryAt(l, i + 2, "plain")
            /\ QueryAt(l, i, "plain") =>
                 /\ QueryAt(l, i - 2, "#") /\ ResultAt(l, i - 1, "empty")
                 /\ IF i + 1 \in DOMAIN l THEN l[i + 1][1] = "result" ELSE tk.pc = "q_plain"
            /\ l[i][1] = "result" => (i - 1 \in DOMAIN l /\ l[i - 1][1] = "query")
       /\ Queries(tk) <= 2 * Rounds(tk)
       /\ tk.seen # <<>> <=> \E i \in DOMAIN l : ResultAt(l, i, "nonempty")
       /\ tk.pc = "wait" =>
            \/ ResultAt(l, Len(l), "empty") /\ QueryAt(l, Len(l) - 1, "plain")
            \/ ResultAt(l, Len(l), "nonempty")

\* a round whose prefixed query came back empty took the plain query's answer
C29_Witness ==
  \E t \in Tasks :
    LET l == task[t].log
    IN \E i \in DOMAIN l :
         /\ QueryAt(l, i, "#") /\ ResultAt(l, i + 1, "empty")
         /\ QueryAt(l, i + 2, "plain") /\ ResultAt(l, i + 3, "nonempty")
         /\ task[t].seen # <<>>
         /\ Rounds(task[t]) = 2
         /\ Navigated(task[t])

\* ---------------------------------------------------------------- save, then open
\* the task has issued the vscode.openFolder command
OpenFolderCalled(tk) == Count(tk.log, "openFolder") > 0

\* C30: in handleUri for a project that is not open, under a policy other
\* than 'error', the write of the pending record has landed before the
\* openFolder command is issued: at the call the slot holds the request's own
\* record, so a window the call starts cannot read the slot before that write.
C30_SaveBeforeOpen ==
  /\ [](\A t \in Tasks :
          LET tk == task[t]
          IN /\ tk.pc = "h_update" => (tk.log = <<>> /\ tk.stamp = 0)
             /\ OpenFolderCalled(tk) =>
                  /\ tk.ev = "uri" /\ tk.notOpen \in {"new-window", "current-window"}
                  /\ tk.stamp \in 1..serial
                  /\ Len(tk.log) = 2
                  /\ tk.log[1] = <<"update", "save">> /\ tk.log[2][1] = "openFolder")
  /\ [][\A t \in Tasks :
          (OpenFolderCalled(task'[t]) /\ task'[t] # task[t]) =>
            /\ task[t].pc = "h_update"
            /\ pendingUri' = PendingOf(task'[t])
            /\ pendingBy' = task'[t].stamp]_vars

\* a request for a project that is not open has saved its record and asked
\* for a new window, and the record is in the slot
C30_Witness ==
  \E t \in Tasks :
    /\ OpenFolderCalled(task[t]) /\ task[t].notOpen = "new-window"
    /\ Has(task[t].log, "openFolder", "forceNewWindow")
    /\ pendingUri = PendingOf(task[t]) /\ pendingBy = task[t].stamp
    /\ ~isWorkspaceOpen(task[t].inst, task[t].cwd)
    /\ \E i \in Inst : isWorkspaceOpen(i, task[t].cwd)

\* ---------------------------------------------------------------- duplicates
\* the task has read the record of a save in a window that has its project
\* open: it is about to clear the slot or has gone on into the resolution
Consuming(tk) == IsPending(tk) /\ tk.stamp >= 1 /\ (tk.pc = "p_update" \/ Resolving(tk))

\* C31: two windows that both have the record's project open can both read
\* the same record before either clear lands, and then both resolve it.  Two
\* tasks that consume the same record are always tasks of two different
\* windows that both have the project open, and they resolve the same request.
C31_DuplicateAcrossWindows ==
  \A t, u \in Tasks :
    (t # u /\ Consuming(task[t]) /\ Consuming(task[u]) /\ task[t].stamp = task[u].stamp) =>
      /\ task[t].inst # task[u].inst
      /\ isWorkspaceOpen(task[t].inst, task[t].cwd)
      /\ isWorkspaceOpen(task[u].inst, task[u].cwd)
      /\ PendingOf(task[t]) = PendingOf(task[u])

\* two windows have both cleared the slot for the same record and both run
\* the resolution for it
C31_Witness ==
  \E t, u \in Tasks :
    /\ t # u /\ task[t].inst # task[u].inst
    /\ task[t].stamp = task[u].stamp /\ task[t].stamp >= 1
    /\ Resolving(task[t]) /\ Resolving(task[u])
    /\ pendingUri = NoPending

\* ---------------------------------------------------------------- marker probing
\* the number of markers the detectors before detector d list
RECURSIVE MarkersBefore(_, _)
MarkersBefore(dets, d) ==
  IF d <= 1 THEN 0 ELSE MarkersBefore(dets, d - 1) + Len(dets[d - 1].markers)

\* activation goes by marker detection: no override, or none with a detector
ByMarkers(tk) == tk.language = None \/ OverrideDetectors(tk) = {}

\* C32: marker detection probes the detectors in configured order and each
\* detector's markers in order, and stops at the first detector one of whose
\* markers exists, also when that detector's source glob finds no file: after
\* a marker hit no marker and no glob of a later detector is searched.
C32_MarkerOrder ==
  \A t \in Tasks :
    LET tk == task[t]
        l == tk.log
        probes == CountArg(l, "findFiles", "marker")
        globs == CountArg(l, "findFiles", "glob")
    IN /\ (ByMarkers(tk) /\ tk.pc \in {"lsp_marker", "lsp_glob"}) =>
            /\ tk.det \in DOMAIN tk.dets /\ tk.mk \in DOMAIN tk.dets[tk.det].markers
            /\ probes = MarkersBefore(tk.dets, tk.det) + tk.mk
            /\ globs = IF tk.pc = "lsp_glob" THEN 1 ELSE 0
            /\ LastCall(tk) = <<"findFiles", IF tk.pc = "lsp_glob" THEN "glob" ELSE "marker">>
       /\ globs <= 1
       /\ \A i, j \in DOMAIN l :
            (i < j /\ l[i][1] = "findFiles" /\ l[i][2] = "glob") => l[j][1] # "findFiles"
       /\ (ByMarkers(tk) /\ Activated(tk) /\ globs = 0) =>
            probes = MarkersBefore(tk.dets, Len(tk.dets) + 1)

\* the third marker probed, the go detector's, existed, its glob found no
\* file, and the attempt went on without a further search
C32_Witness ==
  \E t \in Tasks :
    /\ task[t].language = None /\ task[t].dets = langDetectors
    /\ Activated(task[t])
    /\ CountArg(task[t].log, "findFiles", "marker") = 3
    /\ CountArg(task[t].log, "findFiles", "glob") = 1
    /\ CountArg(task[t].log, "openTextDocument", "lsp") = 0

\* C33: index activation loads at most one file per request, by the language
\* override, by marker detection, or none when no detector matches, and the
\* file it loads is never shown: every document shown is the navigation
\* target, opened right before.
C33_AtMostOneSilentLoad ==
  \A t \in Tasks :
    LET tk == task[t]
        l == tk.log
        loads == CountArg(l, "openTextDocument", "lsp")
    IN /\ loads <= 1
       /\ \A i \in DOMAIN l :
            /\ (l[i][1] = "openTextDocument" /\ l[i][2] = "lsp") =>
                 /\ i > 1 /\ l[i - 1] = <<"findFiles", "glob">>
                 /\ i + 1 \in DOMAIN l => l[i + 1] = <<"withProgress", "call">>
            /\ l[i][1] = "showTextDocument" =>
                 /\ l[i][2] = "nav"
                 /\ i > 1 /\ l[i - 1] = <<"openTextDocument", "nav">>
       /\ (Activated(tk) /\ ~HasMarkers(tk) /\ OverrideDetectors(tk) = {}) => loads = 0

\* marker detection loaded a file, and the request later showed its target
C33_Witness ==
  \E t \in Tasks :
    /\ task[t].language = None
    /\ CountArg(task[t].log, "findFiles", "marker") >= 1
    /\ CountArg(task[t].log, "openTextDocument", "lsp") = 1
    /\ Has(task[t].log, "showTextDocument", "nav")
    /\ Count(task[t].log, "showTextDocument") = 1

\* C34: when a visible document's extension belongs to a detector in force,
\* index activation does nothing: it issues no marker search and no glob
\* search and loads no file.
C34_VisibleEditorSkipsActivation ==
  \A t \in Tasks :
    VisibleMatches(task[t]) =>
      /\ Count(task[t].log, "findFiles") = 0
      /\ CountArg(task[t].log, "openTextDocument", "lsp") = 0

\* ---------------------------------------------------------------- failures
\* an index query of the task was rejected
QueryFailed(tk) == Has(tk.log, "result", "throw")

InResolve(tk) == tk.pc \in {"progress", "q_hash", "q_plain", "wait", "pick", "fuzzypick"}

\* C36: provided every index query, retry interval and picker call returns,
\* every resolution attempt leaves resolveSymbol (no task stays inside it
\* for ever), and it never issues more than retryCount rounds nor more than
\* 2 * retryCount index queries.
C36_AttemptTerminates ==
  /\ \A t \in Tasks : []<>~(env \in LoopProfiles /\ InResolve(task[t]))
  /\ [](\A t \in Tasks :
          /\ Rounds(task[t]) <= task[t].retryCount
          /\ Queries(task[t]) <= 2 * task[t].retryCount
          /\ InResolve(task[t]) => task[t].attempt <= task[t].retryCount)

\* an attempt used all its rounds and all its queries and has ended
C36_Witness ==
  \E t \in Tasks :
    /\ Terminal(task[t]) /\ task[t].retryCount = MaxRetry
    /\ Rounds(task[t]) = MaxRetry /\ Queries(task[t]) = 2 * MaxRetry
    /\ NotFoundSignal(task[t])

\* the task waits out the retry interval that follows its last round
AfterLastRound(tk) == tk.pc = "wait" /\ tk.attempt + 1 = tk.retryCount

\* C37: the cancellation token is read only where a round starts.  A round
\* under way with the token set still takes the answer of its query and goes
\* on as without the token; and when the token is set after the last round
\* has started, the attempt does not end Cancelled: after the interval that
\* follows the last round, the retryCount-th, it ends NotFound.
C37_CancelOnlyAtRoundStart ==
  [][\A t \in Tasks :
       LET tk == task[t]
           tn == task'[t]
       IN (tk.token /\ tn # tk) =>
            /\ tk.pc \in {"q_hash", "q_plain"} =>
                 /\ Len(tn.log) > Len(tk.log)
                 /\ tn.log[Len(tk.log) + 1][1] = "result"
                 /\ ~CancelledSignal(tn)
                 /\ \E symbols \in Host.results, cfg \in SelectCfgs :
                      \/ tn = OpenSymbolCatch(Emit(tk, <<"result", "throw">>), Rejected)
                      \/ tn.log = (IF tk.pc = "q_hash"
                                   THEN findSymbolsHash([tk EXCEPT !.token = FALSE], symbols, cfg)
                                   ELSE findSymbolsPlain([tk EXCEPT !.token = FALSE], symbols, cfg)).log
            /\ AfterLastRound(tk) =>
                 /\ tn.pc = "done" /\ tn.ret = ResNone
                 /\ tn.attempt = tk.retryCount
                 /\ NotFoundSignal(tn) /\ ~CancelledSignal(tn)
                 /\ Len(tn.log) = Len(tk.log) + 1]_vars

\* the token was set after the last of two empty rounds had started, and the
\* attempt ended NotFound
C37_Witness ==
  \E t \in Tasks :
    /\ Terminal(task[t]) /\ task[t].token
    /\ task[t].retryCount = MaxRetry /\ Rounds(task[t]) = MaxRetry /\ AllEmpty(task[t])
    /\ task[t].attempt = MaxRetry
    /\ NotFoundOutcome(task[t]) /\ NotFoundSignal(task[t])

\* ---------------------------------------------------------------- what is found
\* the attempt ended Found without the picker of fuzzy matches
FoundExact(tk) == tk.ret.symbol # NoSymbol /\ ~Has(tk.log, "showQuickPick", "fuzzy")

\* C38: a candidate an attempt ends Found with, without the fuzzy picker
\* having been shown, is one the index returned in the attempt's last round,
\* its normalised name is the query name, and it passes the kind filter
\* whenever the hint is a kind name of the vocabulary.
C38_FoundIsExact ==
  \A t \in Tasks :
    LET tk == task[t]
        c == tk.ret.symbol
    IN FoundExact(tk) =>
         /\ c \in Range(tk.seen)
         /\ NormalizeName(c.name) = tk.symbol
         /\ IsExactFor(c.name, tk.symbol)
         /\ KindFilterApplies(tk.kind) => c.kind = parseSymbolKind(tk.kind)
         /\ Has(tk.log, "selectSymbol", "call")
         /\ \E i \in DOMAIN tk.log :
              /\ ResultAt(tk.log, i, "nonempty")
              /\ \A j \in DOMAIN tk.log : j > i => tk.log[j][1] \notin {"query", "result"}

\* the second round answered a function and a class of the query's name, and
\* the hint Function made the attempt end with the function
C38_Witness ==
  \E t \in Tasks :
    /\ FoundExact(task[t]) /\ task[t].kind = "Function"
    /\ Rounds(task[t]) = 2
    /\ task[t].seen = <<FooFunction, FooClass>>
    /\ task[t].ret.symbol = FooFunction

\* ---------------------------------------------------------------- the slot's frame
\* the pending slot with the serial numbers that tell two equal records apart
Slot == <<pendingUri, pendingBy, serial>>

C40_NoSecondHandoff ==
  /\ [](\A t \in Tasks :
          IsPending(task[t]) =>
            /\ Count(task[t].log, "openFolder") = 0
            /\ ~Has(task[t].log, "update", "save")
            /\ Count(task[t].log, "update") <= 1
            /\ task[t].pc # "h_update"
            /\ task[t].notOpen = None)
  /\ [][\A t \in Tasks :
          (IsPending(task[t]) /\ task[t].pc # "done" /\ task'[t] # task[t]) =>
            /\ serial' = serial
            /\ pendingUri' \in {pendingUri, NoPending}]_vars

\* a window consumed a record and navigated to the symbol; the slot is empty
\* and no save has been made since the one it consumed
C40_Witness ==
  \E t \in Tasks :
    /\ IsPending(task[t]) /\ task[t].stamp = serial /\ serial >= 1
    /\ Has(task[t].log, "update", "clear")
    /\ Navigated(task[t]) /\ task[t].pc = "done"
    /\ pendingUri = NoPending

====
